---- MODULE Spec2Model ----
(***************************************************************************)
(* Tensor<T> of include/tensor.h, instantiated at T = int.                 *)
(*                                                                         *)
(* C++ containers are 0-based, TLA+ sequences 1-based: element i of a C++  *)
(* vector v is v[i+1] here.  Flat offsets, coordinates and axis numbers    *)
(* keep their C++ (0-based) values.                                        *)
(***************************************************************************)
EXTENDS Integers, Sequences, FiniteSets, TLC

\* ---- bounds of the model ------------------------------------------------
MaxRank == 3        \* longest shape handed to the constructor by a caller
MaxElems == 4       \* largest product of a shape handed to the constructor by a caller
MaxSteps == 1       \* operations applied in one run, fill_sequence and reads aside
MaxRep == 2         \* largest n of repeat_inner / repeat_outer

VARIABLES
    tensors,    \* the live Tensor objects, in order of creation
    shapes,     \* shapes[i]: the _dim the constructor of tensors[i] received
    call,       \* the last operation: its arguments, result and pre-state
    status,     \* "running", or "aborted" once the process has terminated
    NDEBUG,     \* whether the build defines NDEBUG (assert compiled out)
    steps       \* operations applied so far, fill_sequence and reads aside

vars == <<tensors, shapes, call, status, NDEBUG, steps>>

\* ---- the element type and the callers' functors ---------------------------
Max(a, b) == IF a < b THEN b ELSE a

\* C++ division of ints truncates toward zero
TruncDiv(a, b) ==
    IF (a >= 0) = (b > 0) THEN (IF a >= 0 THEN a ELSE -a) \div (IF b > 0 THEN b ELSE -b)
    ELSE -((IF a >= 0 THEN a ELSE -a) \div (IF b > 0 THEN b ELSE -b))

\* binary_op(a, b) for the functors the callers pass
BinOps == {"plus", "max", "horner"}
Apply(f, a, b) ==
    CASE f = "plus"   -> a + b          \* std::plus<T>
      [] f = "max"    -> Max(a, b)      \* [](T a, T b){return std::max(a,b);}
      [] f = "minus"  -> a - b          \* std::minus
      [] f = "mult"   -> a * b          \* std::multiplies<T>
      [] f = "div"    -> TruncDiv(a, b) \* x/s
      [] f = "horner" -> a * 2 + b      \* a non-commutative caller functor

\* ---- construction -------------------------------------------------------
RECURSIVE Product(_)
Product(d) ==
    IF d = <<>> THEN 1 ELSE Product(SubSeq(d, 1, Len(d) - 1)) * d[Len(d)]

RECURSIVE OffsetsLoop(_, _, _, _)
OffsetsLoop(dim, i, p, offs) ==
    IF i < 0 THEN offs
    ELSE OffsetsLoop(dim, i - 1, p * dim[i + 1], [offs EXCEPT ![i + 1] = p])

\* a slip in the stride loop: p is multiplied before it is stored
RECURSIVE OffsetsLoop_multiplyFirst(_, _, _, _)
OffsetsLoop_multiplyFirst(dim, i, p, offs) ==
    IF i < 0 THEN offs
    ELSE OffsetsLoop_multiplyFirst(dim, i - 1, p * dim[i + 1],
                                   [offs EXCEPT ![i + 1] = p * dim[i + 1]])

Tensor_multiplyFirst(_dim) ==
    LET n == Product(_dim)
        ndim == Len(_dim)
    IN  [dim     |-> _dim,
         nelem   |-> n,
         vec     |-> [j \in 1..n |-> 0],
         offsets |-> OffsetsLoop_multiplyFirst(_dim, ndim - 1, 1, [j \in 1..ndim |-> 0])]

Tensor(_dim) ==
    LET n == Product(_dim)
        ndim == Len(_dim)
    IN  [dim     |-> _dim,
         nelem   |-> n,
         vec     |-> [j \in 1..n |-> 0],
         offsets |-> OffsetsLoop(_dim, ndim - 1, 1, [j \in 1..ndim |-> 0])]

\* ---- coordinate mapping ---------------------------------------------------
RECURSIVE locationLoop(_, _, _, _)
locationLoop(t, ix, i, loc) ==
    IF i < 0 THEN loc
    ELSE locationLoop(t, ix, i - 1, loc + t.offsets[i + 1] * ix[i + 1])

location(t, ix) == locationLoop(t, ix, Len(t.dim) - 1, 0)

RECURSIVE indexLoop(_, _, _, _)
indexLoop(t, loc, i, id) ==
    IF i < 0 THEN id
    ELSE LET ix == loc % t.dim[i + 1]
         IN  indexLoop(t, (loc - ix) \div t.dim[i + 1], i - 1,
                       [id EXCEPT ![i + 1] = ix])

\* a slip in the decomposition: the axes are peeled outermost first
RECURSIVE indexLoop_outerFirst(_, _, _, _)
indexLoop_outerFirst(t, loc, i, id) ==
    IF i >= Len(t.dim) THEN id
    ELSE LET ix == loc % t.dim[i + 1]
         IN  indexLoop_outerFirst(t, (loc - ix) \div t.dim[i + 1], i + 1,
                                  [id EXCEPT ![i + 1] = ix])

index_outerFirst(t, loc) ==
    indexLoop_outerFirst(t, loc, 0, [j \in 1..Len(t.dim) |-> 0])

index(t, loc) == indexLoop(t, loc, Len(t.dim) - 1, [j \in 1..Len(t.dim) |-> 0])

fill_sequence(t) == [t EXCEPT !.vec = [j \in 1..Len(t.vec) |-> j - 1]]

\* ---- plane enumeration ----------------------------------------------------
RECURSIVE planeLoop(_, _, _, _, _)
planeLoop(t, a, k, i, locs) ==
    IF i >= t.nelem THEN locs
    ELSE planeLoop(t, a, k, i + 1,
                   IF index(t, i)[a + 1] = 0
                   THEN Append(locs, i + k * t.offsets[a + 1])
                   ELSE locs)

\* a slip in the axis translation: axis is taken as counted from the left
plane_axisFromLeft(t, axis, k) == planeLoop(t, axis, k, 0, <<>>)

plane(t, axis, k) == planeLoop(t, Len(t.dim) - 1 - axis, k, 0, <<>>)

\* ---- in-place axis transform ----------------------------------------------
RECURSIVE transform_dimLoop(_, _, _, _, _, _, _)
transform_dimLoop(vec, i, count, n, off, f, w) ==
    IF count >= n THEN vec
    ELSE transform_dimLoop([vec EXCEPT ![i + 1] = Apply(f, vec[i + 1], w[count + 1])],
                           i + off, count + 1, n, off, f, w)

\* a slip in the walk: each step's result is carried into the next element
RECURSIVE transform_dimLoop_carry(_, _, _, _, _, _, _, _)
transform_dimLoop_carry(vec, acc, i, count, n, off, f, w) ==
    IF count >= n THEN vec
    ELSE LET v == Apply(f, IF count = 0 THEN vec[i + 1] ELSE acc, w[count + 1])
         IN  transform_dimLoop_carry([vec EXCEPT ![i + 1] = v], v,
                                     i + off, count + 1, n, off, f, w)

transform_dim_carry(t, loc, axis, f, w) ==
    LET a == Len(t.dim) - 1 - axis
    IN  [t EXCEPT !.vec = transform_dimLoop_carry(t.vec, 0, loc, 0, t.dim[a + 1],
                                                  t.offsets[a + 1], f, w)]

transform_dim(t, loc, axis, f, w) ==
    LET a == Len(t.dim) - 1 - axis
    IN  [t EXCEPT !.vec = transform_dimLoop(t.vec, loc, 0, t.dim[a + 1],
                                            t.offsets[a + 1], f, w)]

RECURSIVE transformLoop(_, _, _, _, _, _)
transformLoop(t, locs, i, axis, f, w) ==
    IF i >= Len(locs) THEN t
    ELSE transformLoop(transform_dim(t, locs[i + 1], axis, f, w), locs, i + 1, axis, f, w)

\* a slip in the loop bound: the last line is left out
transform_skipLast(t, axis, f, w) ==
    LET locs == plane(t, axis, 0)
    IN  transformLoop(t, SubSeq(locs, 1, Len(locs) - 1), 0, axis, f, w)

transform(t, axis, f, w) == transformLoop(t, plane(t, axis, 0), 0, axis, f, w)

\* ---- axis reduction -------------------------------------------------------
RECURSIVE accumulate_dimLoop(_, _, _, _, _, _, _, _)
accumulate_dimLoop(t, v, i, count, n, off, f, weights) ==
    IF count >= n THEN v
    ELSE LET w == IF Len(weights) > 0 THEN weights[count + 1] ELSE 1
         IN  accumulate_dimLoop(t, Apply(f, v, w * t.vec[i + 1]),
                                i + off, count + 1, n, off, f, weights)

accumulate_dim(t, v0, loc, axis, f, weights) ==
    LET a == Len(t.dim) - 1 - axis
    IN  accumulate_dimLoop(t, 0, loc, 0, t.dim[a + 1], t.offsets[a + 1], f, weights)

\* dim_new.erase(dim_new.begin() + dim_new.size()-1-axis)
Erase(d, pos) == SubSeq(d, 1, pos) \o SubSeq(d, pos + 2, Len(d))

\* a slip in the erase: the axis is taken as counted from the left
accumulate_eraseFromLeft(t, v0, axis, f, weights) ==
    LET dim_new == Erase(t.dim, axis)
        tens == Tensor(dim_new)
        locs == plane(t, axis, 0)
    IN  [tens EXCEPT !.vec =
            [i \in 1..Len(tens.vec) |->
                IF i <= Len(locs)
                THEN accumulate_dim(t, v0, locs[i], axis, f, weights)
                ELSE tens.vec[i]]]

accumulate(t, v0, axis, f, weights) ==
    LET dim_new == Erase(t.dim, Len(t.dim) - 1 - axis)
        tens == Tensor(dim_new)
        locs == plane(t, axis, 0)
    IN  [tens EXCEPT !.vec =
            [i \in 1..Len(tens.vec) |->
                IF i <= Len(locs)
                THEN accumulate_dim(t, v0, locs[i], axis, f, weights)
                ELSE tens.vec[i]]]

\* ---- derived reductions ---------------------------------------------------
\* what a read outside a vector's storage can yield when it does not trap
Garbage == {-7, 9}

\* T v0 = vec[1]: an element for nelem >= 2, a read outside the storage below
max_dimSeeds(t) == IF Len(t.vec) >= 2 THEN {t.vec[2]} ELSE Garbage

max_dim(t, v0, axis) == accumulate(t, v0, axis, "max", <<>>)

\* std::transform(vec.begin(), vec.end(), vec.begin(), [&s](x){return x op s;})
ScalarAssign(t, f, s) ==
    [t EXCEPT !.vec = [j \in 1..Len(t.vec) |-> Apply(f, t.vec[j], s)]]

avg_dim(t, axis, weights) ==
    ScalarAssign(accumulate(t, 0, axis, "plus", weights), "div",
                 t.dim[Len(t.dim) - axis])

\* ---- replication ----------------------------------------------------------
\* for (i < nelem) for (j < n) tout.vec[count++] = vec[i];
RECURSIVE repeat_innerLoop(_, _, _, _, _, _)
repeat_innerLoop(t, n, i, j, count, out) ==
    IF i >= t.nelem THEN out
    ELSE IF j >= n THEN repeat_innerLoop(t, n, i + 1, 0, count, out)
    ELSE repeat_innerLoop(t, n, i, j + 1, count + 1,
                          [out EXCEPT ![count + 1] = t.vec[i + 1]])

\* a slip in the loop nest: the copies are laid out block after block
RECURSIVE repeat_innerLoop_blocks(_, _, _, _, _, _)
repeat_innerLoop_blocks(t, n, j, i, count, out) ==
    IF j >= n THEN out
    ELSE IF i >= t.nelem THEN repeat_innerLoop_blocks(t, n, j + 1, 0, count, out)
    ELSE repeat_innerLoop_blocks(t, n, j, i + 1, count + 1,
                                 [out EXCEPT ![count + 1] = t.vec[i + 1]])

repeat_inner_blocks(t, n) ==
    LET tout == Tensor(Append(t.dim, n))
    IN  [tout EXCEPT !.vec = repeat_innerLoop_blocks(t, n, 0, 0, 0, tout.vec)]

repeat_inner(t, n) ==
    LET tout == Tensor(Append(t.dim, n))
    IN  [tout EXCEPT !.vec = repeat_innerLoop(t, n, 0, 0, 0, tout.vec)]

\* for (j < n) for (i < nelem) tout.vec[count++] = vec[i];
RECURSIVE repeat_outerLoop(_, _, _, _, _, _)
repeat_outerLoop(t, n, j, i, count, out) ==
    IF j >= n THEN out
    ELSE IF i >= t.nelem THEN repeat_outerLoop(t, n, j + 1, 0, count, out)
    ELSE repeat_outerLoop(t, n, j, i + 1, count + 1,
                          [out EXCEPT ![count + 1] = t.vec[i + 1]])

repeat_outer(t, n) ==
    LET tout == Tensor(<<n>> \o t.dim)
    IN  [tout EXCEPT !.vec = repeat_outerLoop(t, n, 0, 0, 0, tout.vec)]

\* ---- elementwise arithmetic -----------------------------------------------
\* std::transform(vec.begin(), vec.end(), rhs.vec.begin(), vec.begin(), op):
\* one step per element of vec; rhs.vec is read at the same position, which
\* lies outside rhs.vec when it is the shorter one (g: what such a read yields)
TensorAssign(t, rhs, f, g) ==
    [t EXCEPT !.vec =
        [j \in 1..Len(t.vec) |->
            Apply(f, t.vec[j], IF j <= Len(rhs.vec) THEN rhs.vec[j] ELSE g)]]

\* scalar - tensor
ScalarLeftMinus(s, t) == ScalarAssign(t, "minus", s)

\* scalar + tensor, scalar * tensor
ScalarLeft(s, t, f) ==
    IF f = "minus" THEN ScalarLeftMinus(s, t) ELSE ScalarAssign(t, f, s)

\* ---- inputs ----------------------------------------------------------------
RECURSIVE SeqsUpTo(_, _)
\* the sequences of n positive integers whose product is at most m
SeqsUpTo(n, m) ==
    IF n = 0 THEN {<<>>}
    ELSE UNION {{<<d>> \o r : r \in SeqsUpTo(n - 1, m \div d)} : d \in 1..m}

\* every shape of positive dimensions within the bounds
Shapes == UNION {SeqsUpTo(n, MaxElems) : n \in 1..MaxRank}

\* the shapes the arithmetic, transform and reduction runs start from: one
\* element, one line, and ranks 2 and 3 with unequal extents
OpShapes == {<<1>>, <<3>>, <<2, 3>>, <<2, 1, 2>>, <<2, 3, 2>>}

Axes(t) == 0..(Len(t.dim) - 1)
Extent(t, axis) == t.dim[Len(t.dim) - axis]
\* the coordinate tuples c with 0 <= c[i] < dim[i] on every axis
RECURSIVE CoordsOf(_)
CoordsOf(d) ==
    IF d = <<>> THEN {<<>>}
    ELSE {Append(c, x) : c \in CoordsOf(SubSeq(d, 1, Len(d) - 1)), x \in 0..(d[Len(d)] - 1)}
Coords(t) == CoordsOf(t.dim)
Range(s) == {s[i] : i \in 1..Len(s)}

\* weights of the exact length of the axis: 1, 2, .., n
Weights(n) == {[j \in 1..n |-> j]}
Seeds == {0, 5}
Scalars == {-3, 2}

\* ---- the program's state ------------------------------------------------
NoCall ==
    [op |-> "none", t |-> 0, u |-> 0, axis |-> 0, k |-> 0, f |-> "none",
     w |-> <<>>, s |-> 0, n |-> 0, loc |-> 0, ix |-> <<>>, v0 |-> 0,
     old |-> <<>>, ret |-> 0, r |-> 0, rs |-> <<>>, outcome |-> "ok"]

\* the state after the construction of one tensor
InitOf(S) ==
    /\ \E shape \in S :
          /\ tensors = <<Tensor(shape)>>
          /\ shapes = <<shape>>
    /\ call = NoCall
    /\ status = "running"
    /\ NDEBUG \in BOOLEAN
    /\ steps = 0

Init == InitOf(OpShapes)

Running == status = "running"
\* the run may still apply an operation
Budget == steps < MaxSteps
Live == 1..Len(tensors)

\* a new Tensor object comes to exist; shape is what its constructor received
Alloc(tens, shape) ==
    /\ tensors' = Append(tensors, tens)
    /\ shapes' = Append(shapes, shape)

Store(i, tens) ==
    /\ tensors' = [tensors EXCEPT ![i] = tens]
    /\ UNCHANGED shapes

\* the process terminates abnormally: no object is touched any more
Abort(c, how) ==
    /\ call' = [c EXCEPT !.outcome = how, !.old = tensors]
    /\ status' = "aborted"
    /\ UNCHANGED <<tensors, shapes, NDEBUG>>
    /\ steps' = steps + 1

Done(c) ==
    /\ call' = [c EXCEPT !.old = tensors]
    /\ steps' = steps + 1
    /\ UNCHANGED <<status, NDEBUG>>

\* a call that only reads
Query(c) ==
    /\ Running
    /\ call' = [c EXCEPT !.old = tensors]
    /\ UNCHANGED <<tensors, shapes, status, NDEBUG, steps>>

\* ---- operations ------------------------------------------------------------
\* the debug initialiser: it overwrites every element, whatever was applied before
FillSequence(i) ==
    /\ Running
    /\ Store(i, fill_sequence(tensors[i]))
    /\ call' = [NoCall EXCEPT !.op = "fill_sequence", !.t = i, !.old = tensors]
    /\ UNCHANGED <<status, NDEBUG, steps>>

CallLocation(i, ix) ==
    Query([NoCall EXCEPT !.op = "location", !.t = i, !.ix = ix,
                         !.r = location(tensors[i], ix)])

CallIndex(i, loc) ==
    Query([NoCall EXCEPT !.op = "index", !.t = i, !.loc = loc,
                         !.rs = index(tensors[i], loc)])

CallPlane(i, axis, k) ==
    Query([NoCall EXCEPT !.op = "plane", !.t = i, !.axis = axis, !.k = k,
                         !.rs = plane(tensors[i], axis, k)])

TransformDim(i, loc, axis, f, w) ==
    /\ Running
    /\ Store(i, transform_dim(tensors[i], loc, axis, f, w))
    /\ Done([NoCall EXCEPT !.op = "transform_dim", !.t = i, !.loc = loc,
                           !.axis = axis, !.f = f, !.w = w])

Transform(i, axis, f, w) ==
    /\ Running
    /\ Store(i, transform(tensors[i], axis, f, w))
    /\ Done([NoCall EXCEPT !.op = "transform", !.t = i, !.axis = axis,
                           !.f = f, !.w = w])

AccumulateDim(i, v0, loc, axis, f, weights) ==
    Query([NoCall EXCEPT !.op = "accumulate_dim", !.t = i, !.v0 = v0, !.loc = loc,
                         !.axis = axis, !.f = f, !.w = weights,
                         !.r = accumulate_dim(tensors[i], v0, loc, axis, f, weights)])

Accumulate(i, v0, axis, f, weights) ==
    /\ Running
    /\ Alloc(accumulate(tensors[i], v0, axis, f, weights),
             Erase(tensors[i].dim, Len(tensors[i].dim) - 1 - axis))
    /\ Done([NoCall EXCEPT !.op = "accumulate", !.t = i, !.v0 = v0, !.axis = axis,
                           !.f = f, !.w = weights, !.ret = Len(tensors) + 1])

\* vec[1] lies outside the storage of a one-element tensor: the read yields
\* some value, or the process traps
MaxDim(i, axis) ==
    LET c == [NoCall EXCEPT !.op = "max_dim", !.t = i, !.axis = axis, !.f = "max"]
    IN  /\ Running
        /\ \/ \E v0 \in max_dimSeeds(tensors[i]) :
                /\ Alloc(max_dim(tensors[i], v0, axis),
                         Erase(tensors[i].dim, Len(tensors[i].dim) - 1 - axis))
                /\ Done([c EXCEPT !.v0 = v0, !.ret = Len(tensors) + 1])
           \/ /\ Len(tensors[i].vec) < 2
              /\ Abort(c, "trap")

\* operator /= (and every other compound operator) ends without a return
\* statement: the call returns to its caller, or the process traps
AvgDim(i, axis, weights) ==
    LET c == [NoCall EXCEPT !.op = "avg_dim", !.t = i, !.axis = axis,
                            !.f = "plus", !.w = weights]
    IN  /\ Running
        /\ \/ /\ Alloc(avg_dim(tensors[i], axis, weights),
                       Erase(tensors[i].dim, Len(tensors[i].dim) - 1 - axis))
              /\ Done([c EXCEPT !.ret = Len(tensors) + 1])
           \/ Abort(c, "trap")

RepeatInner(i, n) ==
    /\ Running
    /\ Alloc(repeat_inner(tensors[i], n), Append(tensors[i].dim, n))
    /\ Done([NoCall EXCEPT !.op = "repeat_inner", !.t = i, !.n = n,
                           !.ret = Len(tensors) + 1])

RepeatOuter(i, n) ==
    /\ Running
    /\ Alloc(repeat_outer(tensors[i], n), <<n>> \o tensors[i].dim)
    /\ Done([NoCall EXCEPT !.op = "repeat_outer", !.t = i, !.n = n,
                           !.ret = Len(tensors) + 1])

TensorOps == {"plus", "minus", "mult"}
ScalarOps == {"plus", "minus", "mult", "div"}

\* assert(dim == rhs.dim) stops the process unless the build defines NDEBUG
AssertFails(lhs, rhs) == ~NDEBUG /\ lhs.dim # rhs.dim

\* what the reads of rhs.vec past its end can yield
PastEnd(lhs, rhs) == IF Len(rhs.vec) < Len(lhs.vec) THEN Garbage ELSE {0}

\* lhs += rhs, lhs -= rhs, lhs *= rhs on two tensors
CompoundTensor(i, j, f) ==
    LET c == [NoCall EXCEPT !.op = "compound_tensor", !.t = i, !.u = j, !.f = f]
    IN  /\ Running
        /\ \/ /\ AssertFails(tensors[i], tensors[j])
              /\ Abort(c, "assert")
           \/ /\ ~AssertFails(tensors[i], tensors[j])
              /\ \E g \in PastEnd(tensors[i], tensors[j]) :
                    Store(i, TensorAssign(tensors[i], tensors[j], f, g))
              /\ Done(c)
           \/ /\ ~AssertFails(tensors[i], tensors[j])
              /\ Abort(c, "trap")

\* lhs + rhs, lhs - rhs, lhs * rhs: lhs is passed by value, the copy is
\* assigned to and returned
PureTensor(i, j, f) ==
    LET c == [NoCall EXCEPT !.op = "pure_tensor", !.t = i, !.u = j, !.f = f]
    IN  /\ Running
        /\ \/ /\ AssertFails(tensors[i], tensors[j])
              /\ Abort(c, "assert")
           \/ /\ ~AssertFails(tensors[i], tensors[j])
              /\ \E g \in PastEnd(tensors[i], tensors[j]) :
                    Alloc(TensorAssign(tensors[i], tensors[j], f, g), shapes[i])
              /\ Done([c EXCEPT !.ret = Len(tensors) + 1])
           \/ /\ ~AssertFails(tensors[i], tensors[j])
              /\ Abort(c, "trap")

\* t += s, t -= s, t *= s, t /= s
CompoundScalar(i, s, f) ==
    LET c == [NoCall EXCEPT !.op = "compound_scalar", !.t = i, !.s = s, !.f = f]
    IN  /\ Running
        /\ \/ /\ Store(i, ScalarAssign(tensors[i], f, s))
              /\ Done(c)
           \/ Abort(c, "trap")

\* t + s, t - s, t * s, t / s
PureScalar(i, s, f) ==
    LET c == [NoCall EXCEPT !.op = "pure_scalar", !.t = i, !.s = s, !.f = f]
    IN  /\ Running
        /\ \/ /\ Alloc(ScalarAssign(tensors[i], f, s), shapes[i])
              /\ Done([c EXCEPT !.ret = Len(tensors) + 1])
           \/ Abort(c, "trap")

\* s + t, s - t, s * t
ScalarLeftOp(s, i, f) ==
    LET c == [NoCall EXCEPT !.op = "scalar_left", !.t = i, !.s = s, !.f = f]
    IN  /\ Running
        /\ \/ /\ Alloc(ScalarLeft(s, tensors[i], f), shapes[i])
              /\ Done([c EXCEPT !.ret = Len(tensors) + 1])
           \/ Abort(c, "trap")

Next ==
    \/ \E i \in Live : FillSequence(i)
    \/ /\ Budget
       /\ \E i \in Live : \E axis \in Axes(tensors[i]) :
             \E loc \in Range(plane(tensors[i], axis, 0)) :
             \E f \in BinOps : \E w \in Weights(Extent(tensors[i], axis)) :
                TransformDim(i, loc, axis, f, w)
    \/ /\ Budget
       /\ \E i \in Live : \E axis \in Axes(tensors[i]) :
             \E f \in BinOps : \E w \in Weights(Extent(tensors[i], axis)) :
                Transform(i, axis, f, w)
    \/ /\ Budget
       /\ \E i \in Live : \E axis \in Axes(tensors[i]) :
             \E f \in BinOps : \E v0 \in Seeds \ {0} :
             \E w \in Weights(Extent(tensors[i], axis)) \cup {<<>>} :
                Accumulate(i, v0, axis, f, w)
    \/ /\ Budget
       /\ \E i \in Live : \E axis \in Axes(tensors[i]) : MaxDim(i, axis)
    \/ /\ Budget
       /\ \E i \in Live : \E axis \in Axes(tensors[i]) :
             \E w \in Weights(Extent(tensors[i], axis)) \cup {<<>>} : AvgDim(i, axis, w)
    \/ /\ Budget
       /\ \E i \in Live : \E n \in 1..MaxRep : RepeatInner(i, n)
    \/ /\ Budget
       /\ \E i \in Live : \E n \in 1..MaxRep : RepeatOuter(i, n)
    \/ /\ Budget
       /\ \E i \in Live : \E j \in Live : \E f \in TensorOps : CompoundTensor(i, j, f)
    \/ /\ Budget
       /\ \E i \in Live : \E j \in Live : \E f \in TensorOps : PureTensor(i, j, f)
    \/ /\ Budget
       /\ \E i \in Live : \E s \in Scalars : \E f \in ScalarOps : CompoundScalar(i, s, f)
    \/ /\ Budget
       /\ \E i \in Live : \E s \in Scalars : \E f \in ScalarOps : PureScalar(i, s, f)
    \/ /\ Budget
       /\ \E i \in Live : \E s \in Scalars : \E f \in TensorOps : ScalarLeftOp(s, i, f)

\* one tensor and the operations on it and on the tensors they return
Spec == Init /\ [][Next]_vars

\* ---- the read-only calls ---------------------------------------------------
NextQuery ==
    \/ \E i \in Live : FillSequence(i)
    \/ \E i \in Live : \E ix \in Coords(tensors[i]) : CallLocation(i, ix)
    \/ \E i \in Live : \E loc \in 0..(tensors[i].nelem - 1) : CallIndex(i, loc)
    \/ \E i \in Live : \E axis \in Axes(tensors[i]) :
          \E k \in 0..(Extent(tensors[i], axis) - 1) : CallPlane(i, axis, k)

InitQuery == InitOf(Shapes)

SpecQuery == InitQuery /\ [][NextQuery]_vars

\* ---- the reduction of one line ----------------------------------------------
NextLine ==
    \/ \E i \in Live : FillSequence(i)
    \/ /\ Budget
       /\ \E i \in Live : \E s \in Scalars : CompoundScalar(i, s, "minus")
    \/ \E i \in Live : \E axis \in Axes(tensors[i]) :
          \E loc \in Range(plane(tensors[i], axis, 0)) :
          \E f \in BinOps : \E v0 \in Seeds :
          \E w \in Weights(Extent(tensors[i], axis)) \cup {<<>>} :
             AccumulateDim(i, v0, loc, axis, f, w)

SpecLine == InitQuery /\ [][NextLine]_vars

\* ---- two tensors constructed independently ---------------------------------
InitPair ==
    /\ \E shape \in OpShapes : \E shape2 \in OpShapes :
          /\ tensors = <<Tensor(shape), Tensor(shape2)>>
          /\ shapes = <<shape, shape2>>
    /\ call = NoCall
    /\ status = "running"
    /\ NDEBUG \in BOOLEAN
    /\ steps = 0

NextPair ==
    \/ \E i \in Live : FillSequence(i)
    \/ /\ Budget
       /\ \E i \in Live : \E j \in Live : \E f \in TensorOps : CompoundTensor(i, j, f)
    \/ /\ Budget
       /\ \E i \in Live : \E j \in Live : \E f \in TensorOps : PureTensor(i, j, f)

SpecPair == InitPair /\ [][NextPair]_vars

\* ---- properties ------------------------------------------------------------
\* the tensor an operation was applied to, as it was before and as it is now
Src == call.old[call.t]
Now == tensors[call.t]
\* the tensor an operation returned
Out == tensors[call.ret]
\* the absolute position of the axis the last operation named
AbsAxis == Len(Src.dim) - 1 - call.axis
\* coordinate tuple c with x put in at position a (0-based)
Insert(c, a, x) == SubSeq(c, 1, a) \o <<x>> \o SubSeq(c, a + 1, Len(c))
Remove(c, a) == SubSeq(c, 1, a) \o SubSeq(c, a + 2, Len(c))
NonConstant(v) == \E i, j \in 1..Len(v) : v[i] # v[j]

\* C1: for a tensor of positive dimensions, location(index(x)) = x for every
\* flat offset x in [0, nelem), index(location(c)) = c for every valid
\* coordinate tuple c, and location maps the valid tuples one-to-one onto
\* [0, nelem).
C1_LocationIndexInverse ==
    /\ call.op = "index" =>
          /\ call.rs \in Coords(Now)
          /\ location(Now, call.rs) = call.loc
    /\ call.op = "location" =>
          /\ call.r \in 0..(Now.nelem - 1)
          /\ index(Now, call.r) = call.ix
    /\ \A i \in Live :
          /\ {location(tensors[i], c) : c \in Coords(tensors[i])} = 0..(tensors[i].nelem - 1)
          /\ Cardinality(Coords(tensors[i])) = tensors[i].nelem

C1_Witness ==
    /\ call.op = "location"
    /\ Len(Now.dim) = 3
    /\ call.ix[1] > 0
    /\ call.ix[2] > 0
    /\ call.r > 0

\* C6: plane(axis, k), with a = rank-1-axis and 0 <= k < dim[a], returns
\* nelem / dim[a] flat offsets in increasing order, one per line parallel to
\* axis a and no line twice, each the offset of its line's element with
\* coordinate 0 on axis a shifted by k*offsets[a], i.e. of the line's element
\* whose coordinate on axis a is k.
C6_PlaneOnePerLine ==
    call.op = "plane" =>
        LET t == Now
            a == AbsAxis
            rs == call.rs
        IN  /\ Len(rs) * t.dim[a + 1] = t.nelem
            /\ \A j \in 1..(Len(rs) - 1) : rs[j] < rs[j + 1]
            /\ \A j \in 1..Len(rs) :
                  /\ rs[j] \in 0..(t.nelem - 1)
                  /\ index(t, rs[j])[a + 1] = call.k
                  /\ rs[j] = location(t, [index(t, rs[j]) EXCEPT ![a + 1] = 0])
                             + call.k * t.offsets[a + 1]
            /\ {Remove(index(t, rs[j]), a) : j \in 1..Len(rs)}
                  = CoordsOf(Remove(t.dim, a))
            /\ Cardinality({Remove(index(t, rs[j]), a) : j \in 1..Len(rs)}) = Len(rs)

C6_Witness ==
    /\ call.op = "plane"
    /\ Len(Now.dim) = 3
    /\ call.axis = 1
    /\ call.k = 1
    /\ Len(call.rs) > 1

\* the values of the line of t that starts at loc and runs along axis a
Line(t, loc, a) ==
    [count \in 1..t.dim[a + 1] |-> t.vec[loc + (count - 1) * t.offsets[a + 1] + 1]]

\* the left fold of f over vals, each weighted, seeded with v
RECURSIVE SeededFold(_, _, _, _, _)
SeededFold(f, v, vals, weights, count) ==
    IF count > Len(vals) THEN v
    ELSE SeededFold(f,
                    Apply(f, v, (IF Len(weights) > 0 THEN weights[count] ELSE 1) * vals[count]),
                    vals, weights, count + 1)

\* C4: accumulate_dim(initial, startOffset, axis, binaryOp, weights) returns
\* the left fold seeded with the caller's initial value: v = initial, then
\* v = binaryOp(v, w * element) along the line in increasing order, with
\* w = weights[count], or 1 without weights.
C4_SeededWithInitial ==
    call.op = "accumulate_dim" =>
        call.r = SeededFold(call.f, call.v0, Line(Now, call.loc, AbsAxis), call.w, 1)

\* C5: accumulate(initial, axis, binaryOp, weights) returns a new tensor
\* whose dim is the input dim with the axis a = rank-1-axis removed and the
\* others in their order, whose i-th element is the reduction of the line
\* that starts at plane(axis)[i], and whose element at coordinates c' is the
\* reduction of the input line with the coordinates c' on the other axes.
C5_AccumulateShapeAndLines ==
    (call.op = "accumulate" /\ call.outcome = "ok") =>
        LET a == AbsAxis
            locs == plane(Src, call.axis, 0)
        IN  /\ Len(Out.dim) = Len(Src.dim) - 1
            /\ \A i \in 1..Len(Out.dim) :
                  Out.dim[i] = Src.dim[IF i <= a THEN i ELSE i + 1]
            /\ Len(Out.vec) = Len(locs)
            /\ \A i \in 1..Len(locs) :
                  Out.vec[i] = accumulate_dim(Src, call.v0, locs[i], call.axis,
                                              call.f, call.w)
            /\ \A c \in Coords(Out) :
                  Out.vec[location(Out, c) + 1] =
                     accumulate_dim(Src, call.v0, location(Src, Insert(c, a, 0)),
                                    call.axis, call.f, call.w)
            /\ Now = Src

C5_Witness ==
    /\ call.op = "accumulate"
    /\ call.outcome = "ok"
    /\ Len(Src.dim) = 3
    /\ call.axis = 1
    /\ call.f = "horner"
    /\ NonConstant(Out.vec)
    /\ Src.dim[1] # Src.dim[2]

\* the call of the example: f(acc, w) = acc*2 + w over the weights 1, 2, 3,
\* from offset 0 along an innermost axis of size 3 that held 0, 0, 0
C7_Example ==
    /\ call.op = "transform_dim"
    /\ call.f = "horner"
    /\ call.w = <<1, 2, 3>>
    /\ call.loc = 0
    /\ call.axis = 0
    /\ Src.dim[Len(Src.dim)] = 3
    /\ Line(Src, 0, Len(Src.dim) - 1) = <<0, 0, 0>>

\* C7 as stated: the example leaves the line holding 1, 4, 11, each step's
\* result feeding the next.
C7_ExampleFeedsForward ==
    C7_Example => Line(Now, 0, Len(Now.dim) - 1) = <<1, 4, 11>>

\* C7, amended: the example leaves the line holding 1, 2, 3: every element
\* is replaced by f(its own old value, its weight), and no step's result
\* feeds the next.
C7_ExampleElementwise ==
    C7_Example => Line(Now, 0, Len(Now.dim) - 1) = <<1, 2, 3>>

C7_Witness ==
    /\ C7_Example
    /\ Now.vec[1] = 1
    /\ Len(Now.vec) >= 3

\* C8: for n >= 1, repeat_inner(n) returns a new tensor with dim = the input
\* dim followed by n and nelem*n elements, where the element at input
\* offset i fills the output offsets [i*n, i*n+n); the source is unchanged.
C8_RepeatInner ==
    (call.op = "repeat_inner" /\ call.outcome = "ok") =>
        /\ Out.dim = Src.dim \o <<call.n>>
        /\ Out.nelem = Src.nelem * call.n
        /\ Len(Out.vec) = Src.nelem * call.n
        /\ \A i \in 0..(Src.nelem - 1) :
              \A q \in (i * call.n)..(i * call.n + call.n - 1) :
                 Out.vec[q + 1] = Src.vec[i + 1]
        /\ Now = Src

C8_Witness ==
    /\ call.op = "repeat_inner"
    /\ call.n = 2
    /\ NonConstant(Src.vec)
    /\ Len(Src.dim) >= 2
    /\ Len(Out.vec) = 2 * Len(Src.vec)

\* C9: transform(axis, binaryOp, weights), weights of length dim[a], updates
\* every element exactly once: the element at each coordinate tuple c
\* becomes binaryOp(its value before the call, weights[c[a]]), and dim is
\* unchanged.
C9_TransformEveryElementOnce ==
    (call.op = "transform" /\ call.outcome = "ok") =>
        /\ Now.dim = Src.dim
        /\ Len(Now.vec) = Len(Src.vec)
        /\ \A c \in Coords(Src) :
              Now.vec[location(Src, c) + 1] =
                 Apply(call.f, Src.vec[location(Src, c) + 1], call.w[c[AbsAxis + 1] + 1])

C9_Witness ==
    /\ call.op = "transform"
    /\ Len(Src.dim) = 3
    /\ call.axis = 1
    /\ call.f = "horner"
    /\ NonConstant(Src.vec)
    /\ Len(call.w) = 3

\* the product of the entries of d
RECURSIVE Prod(_, _)
Prod(d, i) == IF i > Len(d) THEN 1 ELSE d[i] * Prod(d, i + 1)

C2_MismatchRaisesAndPreserves ==
    (/\ call.op \in {"compound_tensor", "pure_tensor"}
     /\ call.old[call.t].dim # call.old[call.u].dim) =>
        /\ call.outcome = "assert"
        /\ tensors[call.t] = call.old[call.t]
        /\ tensors[call.u] = call.old[call.u]

\* C3: scalar - tensor keeps the operand order: (s - t).vec[i] = s - t.vec[i]
\* at every flat offset i.
C3_ScalarMinusTensor ==
    (call.op = "scalar_left" /\ call.f = "minus" /\ call.outcome = "ok") =>
        \A i \in 1..Len(Src.vec) : Out.vec[i] = call.s - Src.vec[i]

====
